---------------------------- MODULE Spec2Model ----------------------------
(***************************************************************************)
(* A model of the httpdate crate: the HttpDate value, its conversion to    *)
(* and from an instant (whole seconds since 1970-01-01T00:00:00Z), the     *)
(* three parsers (IMF-fixdate, RFC 850, asctime), the dispatcher with its  *)
(* validity gate, the formatter, and the ordering.                         *)
(*                                                                         *)
(* Strings are sequences of bytes (ASCII codes); a Rust index s[i] is the  *)
(* element i + 1 and a Rust slice s[a..b] is SubSeq(s, a + 1, b).          *)
(*                                                                         *)
(* TLC's integers are 32 bits wide and the instants run to 253402300800    *)
(* seconds, so an instant of N seconds since the epoch (a SystemTime, N    *)
(* whole seconds, negative before the epoch) is held in base 86400:        *)
(*     [days |-> N \div 86400, sod |-> N % 86400],   0 <= sod < 86400.      *)
(* N / 86400 and N % 86400 of the code are then its two fields, and        *)
(* 253402300800 = 2932897 * 86400 is [days |-> 2932897, sod |-> 0].        *)
(***************************************************************************)
EXTENDS Integers, Sequences, FiniteSets, TLC

(***************************************************************************)
(* Bounds of the sampled inputs.                                           *)
(***************************************************************************)
\* Days taken on either side of every anchor instant.
MaxDayOff == 1
\* Seconds taken on either side of every anchor instant.
MaxSecOff == 1
\* Number of steps of the sweep over consecutive months.
MaxSweep == 14
\* Operations performed in one run.
MaxOps == 3
\* the most whitespace bytes put before, and after, a written date, and the
\* most bytes appended to one
MaxPad == 1

(***************************************************************************)
(* Byte literals.                                                          *)
(***************************************************************************)
\* b"Mon" ... b"Sun"
Mon == <<77, 111, 110>>
Tue == <<84, 117, 101>>
Wed == <<87, 101, 100>>
Thu == <<84, 104, 117>>
Fri == <<70, 114, 105>>
Sat == <<83, 97, 116>>
Sun == <<83, 117, 110>>
\* b"Jan" ... b"Dec"
Jan == <<74, 97, 110>>
Feb == <<70, 101, 98>>
Mar == <<77, 97, 114>>
Apr == <<65, 112, 114>>
May == <<77, 97, 121>>
Jun == <<74, 117, 110>>
Jul == <<74, 117, 108>>
Aug == <<65, 117, 103>>
Sep == <<83, 101, 112>>
Oct == <<79, 99, 116>>
Nov == <<78, 111, 118>>
Dec == <<68, 101, 99>>
\* b" GMT"
SpGMT == <<32, 71, 77, 84>>
\* b"Monday, " ... b"Sunday, "
MondayCS == <<77, 111, 110, 100, 97, 121, 44, 32>>
TuesdayCS == <<84, 117, 101, 115, 100, 97, 121, 44, 32>>
WednesdayCS == <<87, 101, 100, 110, 101, 115, 100, 97, 121, 44, 32>>
ThursdayCS == <<84, 104, 117, 114, 115, 100, 97, 121, 44, 32>>
FridayCS == <<70, 114, 105, 100, 97, 121, 44, 32>>
SaturdayCS == <<83, 97, 116, 117, 114, 100, 97, 121, 44, 32>>
SundayCS == <<83, 117, 110, 100, 97, 121, 44, 32>>
\* b' ', b',', b'-', b':', b'0'
SP == <<32>>
COMMA == <<44>>
DASH == <<45>>
COLON == <<58>>

\* The one element of a singleton set.  Pick({e : x \in {v}}) is
\* LET x == v IN e, with x standing for the value of v.
Pick(S) == CHOOSE x \in S : TRUE

\* s[i] and s[a..b] of Rust
At(s, i) == s[i + 1]
Slice(s, a, b) == SubSeq(s, a + 1, b)

\* u8::wrapping_sub(x, b'0')
WrappingSub0(x) == (x - 48) % 256

(***************************************************************************)
(* Results.  Error is a single opaque value: Result<T, Error> is modelled  *)
(* as [ok, v] where v carries the value when ok holds.  A parser's result  *)
(* also says whether the call panicked instead of returning (an index or a *)
(* slice past the end of its input).                                       *)
(***************************************************************************)
NoDate == [sec |-> 0, min |-> 0, hour |-> 0, day |-> 0, mon |-> 0, year |-> 0, wday |-> 0]
OkInt(n) == [ok |-> TRUE, v |-> n]
ErrInt == [ok |-> FALSE, v |-> 0]
OkDate(d) == [ok |-> TRUE, v |-> d, panic |-> FALSE]
ErrDate == [ok |-> FALSE, v |-> NoDate, panic |-> FALSE]
PanicParse == [ok |-> FALSE, v |-> NoDate, panic |-> TRUE]

(***************************************************************************)
(* Instants.                                                               *)
(***************************************************************************)
\* The instant `secs` seconds after midnight of day `days`, normalised.
Instant(days, secs) == [days |-> days + secs \div 86400, sod |-> secs % 86400]

\* a < b and a >= b on instants
InstantLt(a, b) == a.days < b.days \/ (a.days = b.days /\ a.sod < b.sod)
InstantGe(a, b) == ~InstantLt(a, b)

\* UNIX_EPOCH, and the first instant of year 10000: 253402300800 seconds.
UNIX_EPOCH == [days |-> 0, sod |-> 0]
YEAR_10000 == [days |-> 2932897, sod |-> 0]

\* std::cmp::Ordering of two instants
InstantCmp(a, b) ==
    IF InstantLt(a, b) THEN "Less" ELSE IF InstantLt(b, a) THEN "Greater" ELSE "Equal"

(***************************************************************************)
(* Calendar arithmetic of the datealgo crate, which the repository calls   *)
(* and does not contain: proleptic Gregorian calendar, Monday = 1.         *)
(***************************************************************************)
\* A year is leap iff divisible by 4 and (not by 100 or by 400).
leap(year) == year % 4 = 0 /\ (year % 100 # 0 \/ year % 400 = 0)

\* datealgo::days_in_month(y, m), for m in 1..12
days_in_month(year, mon) ==
    IF mon = 2 THEN (IF leap(year) THEN 29 ELSE 28)
    ELSE IF mon \in {4, 6, 9, 11} THEN 30 ELSE 31

\* Days before the first of month `mon` in a common year.
CumDays == <<0, 31, 59, 90, 120, 151, 181, 212, 243, 273, 304, 334>>

\* Leap years in 1970 .. year - 1.
LeapsBefore(year) ==
    ((year - 1) \div 4 - (year - 1) \div 100 + (year - 1) \div 400)
    - (1969 \div 4 - 1969 \div 100 + 1969 \div 400)

\* Days from 1970-01-01 to (year, mon, day), year >= 1970.
date_to_rd(year, mon, day) ==
    (year - 1970) * 365 + LeapsBefore(year) + CumDays[mon]
    + (IF leap(year) /\ mon > 2 THEN 1 ELSE 0) + (day - 1)

\* datealgo::date_to_weekday((y, m, d)): 1 = Monday ... 7 = Sunday.
\* 1970-01-01 was a Thursday.
date_to_weekday(year, mon, day) == ((date_to_rd(year, mon, day) + 3) % 7) + 1

\* datealgo::datetime_to_systemtime: the instant of a civil date and time.
datetime_to_systemtime(year, mon, day, hour, min, sec) ==
    Instant(date_to_rd(year, mon, day), hour * 3600 + min * 60 + sec)

\* The year holding day number `days` (days since the epoch, >= 0), in closed
\* form over the 400-year cycle that starts 1601-01-01 (134774 days before
\* the epoch; 146097 days per cycle, 36524 per century, 1461 per 4 years).
YearOfDay(days) ==
    LET z == days + 134774
        era == z \div 146097
        doe == z % 146097
        cen == IF doe \div 36524 = 4 THEN 3 ELSE doe \div 36524
        doc == doe - cen * 36524
        quad == doc \div 1461
        doq == doc % 1461
        yoq == IF doq \div 365 = 4 THEN 3 ELSE doq \div 365
    IN  1601 + era * 400 + cen * 100 + quad * 4 + yoq

\* The month of day-of-year `doy` (0-based) of `year`, by the cumulative table.
MonthOfDoy(year, doy) ==
    LET adj(m) == CumDays[m] + (IF leap(year) /\ m > 2 THEN 1 ELSE 0)
    IN  CHOOSE m \in 1..12 :
            /\ adj(m) <= doy
            /\ (m = 12 \/ doy < adj(m + 1))

\* datealgo::systemtime_to_datetime, for an instant at or after the epoch.
systemtime_to_datetime(t) ==
    Pick({ Pick({ [year |-> year, mon |-> mon,
                   day |-> t.days - date_to_rd(year, mon, 1) + 1,
                   hour |-> t.sod \div 3600, min |-> (t.sod % 3600) \div 60,
                   sec |-> t.sod % 60] :
                  mon \in {MonthOfDoy(year, t.days - date_to_rd(year, 1, 1))} }) :
           year \in {YearOfDay(t.days)} })


(***************************************************************************)
(* HttpDate: [sec, min, hour, day, mon, year, wday].                       *)
(***************************************************************************)
\* A faulty variant: the weekday is not compared.
is_valid_no_wday(d) ==
    /\ d.sec < 60 /\ d.min < 60 /\ d.hour < 24
    /\ d.day > 0 /\ d.mon > 0 /\ d.mon <= 12
    /\ d.year >= 1970 /\ d.year <= 9999
    /\ d.day <= days_in_month(d.year, d.mon)

\* A faulty variant: seconds up to 60 (a leap second) pass.
is_valid_leap_second(d) ==
    /\ d.sec < 61 /\ d.min < 60 /\ d.hour < 24
    /\ d.day > 0 /\ d.mon > 0 /\ d.mon <= 12
    /\ d.year >= 1970 /\ d.year <= 9999
    /\ d.day <= days_in_month(d.year, d.mon)
    /\ d.wday = date_to_weekday(d.year, d.mon, d.day)

\* A faulty variant: every month has 31 days.
is_valid_31_days(d) ==
    /\ d.sec < 60 /\ d.min < 60 /\ d.hour < 24
    /\ d.day > 0 /\ d.mon > 0 /\ d.mon <= 12
    /\ d.year >= 1970 /\ d.year <= 9999
    /\ d.day <= 31
    /\ d.wday = date_to_weekday(d.year, d.mon, d.day)

\* HttpDate::is_valid
is_valid(d) ==
    /\ d.sec < 60
    /\ d.min < 60
    /\ d.hour < 24
    /\ d.day > 0
    /\ d.mon > 0
    /\ d.mon <= 12
    /\ d.year >= 1970
    /\ d.year <= 9999
    /\ d.day <= days_in_month(d.year, d.mon)
    /\ d.wday = date_to_weekday(d.year, d.mon, d.day)

\* A call that may panic: [panic, v].
Done(v) == [panic |-> FALSE, v |-> v]
PanicDate == [panic |-> TRUE, v |-> NoDate]
PanicText == [panic |-> TRUE, v |-> <<>>]

\* A faulty variant: the guard is off by one second.
HttpDate_from_guard_off_by_one(t) ==
    IF InstantLt(t, UNIX_EPOCH) THEN PanicDate
    ELSE IF InstantLt(YEAR_10000, t) THEN PanicDate
    ELSE Pick({ Done([sec |-> c.sec, min |-> c.min, hour |-> c.hour,
                      day |-> c.day, mon |-> c.mon, year |-> c.year,
                      wday |-> date_to_weekday(c.year, c.mon, c.day)]) :
                c \in {systemtime_to_datetime(t)} })

\* A faulty variant: the weekday is counted from Sunday = 1.
HttpDate_from_sunday_first(t) ==
    IF InstantLt(t, UNIX_EPOCH) THEN PanicDate
    ELSE IF InstantGe(t, YEAR_10000) THEN PanicDate
    ELSE Pick({ Done([sec |-> c.sec, min |-> c.min, hour |-> c.hour,
                      day |-> c.day, mon |-> c.mon, year |-> c.year,
                      wday |-> (date_to_weekday(c.year, c.mon, c.day) % 7) + 1]) :
                c \in {systemtime_to_datetime(t)} })

\* A faulty variant: the day of the month is counted from 0.
HttpDate_from_day_from_zero(t) ==
    IF InstantLt(t, UNIX_EPOCH) THEN PanicDate
    ELSE IF InstantGe(t, YEAR_10000) THEN PanicDate
    ELSE Pick({ Done([sec |-> c.sec, min |-> c.min, hour |-> c.hour,
                      day |-> c.day - 1, mon |-> c.mon, year |-> c.year,
                      wday |-> date_to_weekday(c.year, c.mon, c.day)]) :
                c \in {systemtime_to_datetime(t)} })

\* A faulty variant: the weekday is that of the first day of the month.
HttpDate_from_wday_of_first(t) ==
    IF InstantLt(t, UNIX_EPOCH) THEN PanicDate
    ELSE IF InstantGe(t, YEAR_10000) THEN PanicDate
    ELSE Pick({ Done([sec |-> c.sec, min |-> c.min, hour |-> c.hour,
                      day |-> c.day, mon |-> c.mon, year |-> c.year,
                      wday |-> date_to_weekday(c.year, c.mon, 1)]) :
                c \in {systemtime_to_datetime(t)} })

\* impl From<SystemTime> for HttpDate.  For an instant before the epoch
\* duration_since fails and expect panics.
HttpDate_from(t) ==
    IF InstantLt(t, UNIX_EPOCH) THEN PanicDate
    ELSE IF InstantGe(t, YEAR_10000) THEN PanicDate
    ELSE Pick({ Done([sec |-> c.sec, min |-> c.min, hour |-> c.hour,
                      day |-> c.day, mon |-> c.mon, year |-> c.year,
                      wday |-> date_to_weekday(c.year, c.mon, c.day)]) :
                c \in {systemtime_to_datetime(t)} })

\* A faulty variant: the minute and the second change places.
SystemTime_from_min_sec_swapped(d) ==
    datetime_to_systemtime(d.year, d.mon, d.day, d.hour, d.sec, d.min)

\* impl From<HttpDate> for SystemTime
SystemTime_from(d) ==
    datetime_to_systemtime(d.year, d.mon, d.day, d.hour, d.min, d.sec)

\* .expect("datetime not representable as SystemTime"): the seconds since
\* the epoch are unsigned, a date before the epoch has none
SystemTime_from_panics(d) == InstantLt(SystemTime_from(d), UNIX_EPOCH)

(***************************************************************************)
(* The conversions of the earlier revision (httpdate.rs), which walks the  *)
(* years one by one and counts leap years in closed form.                  *)
(***************************************************************************)
\* is_leap_year
is_leap_year(y) == y % 4 = 0 /\ (~(y % 100 = 0) \/ y % 400 = 0)

\* One test of the loop of From<SystemTime> and, when it passes, its body:
\* done once days < the length of the year.
legacy_year_step(s) ==
    IF s.days >= (IF is_leap_year(s.year) THEN 366 ELSE 365)
    THEN [days |-> s.days - (IF is_leap_year(s.year) THEN 366 ELSE 365),
          year |-> s.year + 1, done |-> FALSE]
    ELSE [days |-> s.days, year |-> s.year, done |-> TRUE]

\* At most n iterations of the loop from s, the first half of them and then
\* the second (the evaluator's stack does not hold the eight thousand
\* iterations of a date in year 9999 one inside the other).
RECURSIVE legacy_year_iter(_, _)
legacy_year_iter(s, n) ==
    IF s.done THEN s
    ELSE IF n = 1 THEN legacy_year_step(s)
    ELSE Pick({ legacy_year_iter(m, n - n \div 2) :
                m \in {legacy_year_iter(s, n \div 2)} })

\* The whole loop: no instant of the model needs more than 2^14 iterations.
legacy_year_loop(days, year) ==
    legacy_year_iter([days |-> days, year |-> year, done |-> FALSE], 16384)

\* let mut months = [31, 28, ...]; if is_leap_year(year) { months[1] += 1 }
legacy_months(year) ==
    [i \in 1..12 |->
        IF i = 2 /\ is_leap_year(year) THEN 29
        ELSE <<31, 28, 31, 30, 31, 30, 31, 31, 30, 31, 30, 31>>[i]]

\* for mon_len in months.iter(): [days, mon] at the break (or at the end).
RECURSIVE legacy_month_loop(_, _, _)
legacy_month_loop(months, days0, mon0) ==
    Pick({ IF mon = 12 THEN [days |-> days, mon |-> mon]
           ELSE IF days < months[mon + 1] THEN [days |-> days, mon |-> mon + 1]
           ELSE legacy_month_loop(months, days - months[mon + 1], mon + 1) :
           days \in {days0}, mon \in {mon0} })

\* impl From<SystemTime> for HttpDate (httpdate.rs)
legacy_HttpDate_from(t) ==
    IF InstantLt(t, UNIX_EPOCH) THEN PanicDate
    ELSE Pick({ Pick({ Done([sec |-> t.sod % 60,
                             min |-> (t.sod % 3600) \div 60,
                             hour |-> t.sod \div 3600,
                             day |-> ml.days + 1,
                             mon |-> ml.mon,
                             year |-> yl.year,
                             wday |-> ((t.days + 3) % 7) + 1]) :
                       ml \in {legacy_month_loop(legacy_months(yl.year), yl.days, 0)} }) :
                yl \in {legacy_year_loop(t.days, 1970)} })

\* impl From<HttpDate> for SystemTime (httpdate.rs), for mon in 1..12
legacy_SystemTime_from(d) ==
    LET leap_years == ((d.year - 1) - 1968) \div 4 - ((d.year - 1) - 1900) \div 100
                      + ((d.year - 1) - 1600) \div 400
        ydays0 == <<0, 31, 59, 90, 120, 151, 181, 212, 243, 273, 304, 334>>[d.mon]
                  + d.day - 1
        ydays == IF is_leap_year(d.year) /\ d.mon > 2 THEN ydays0 + 1 ELSE ydays0
        days == (d.year - 1970) * 365 + leap_years + ydays
    IN  Instant(days, d.sec + d.min * 60 + d.hour * 3600)

(***************************************************************************)
(* Digit conversion.                                                       *)
(***************************************************************************)
\* toint_1(x: u8)
toint_1(x) ==
    LET result == WrappingSub0(x)
    IN  IF result < 10 THEN OkInt(result) ELSE ErrInt

\* A faulty variant: a space in the tens' place counts as 0.
toint_2_space_as_zero(s) ==
    LET high == IF At(s, 0) = 32 THEN 0 ELSE WrappingSub0(At(s, 0))
        low == WrappingSub0(At(s, 1))
    IN  IF high < 10 /\ low < 10 THEN OkInt(high * 10 + low) ELSE ErrInt

\* toint_2(s: &[u8])
toint_2(s) ==
    LET high == WrappingSub0(At(s, 0))
        low == WrappingSub0(At(s, 1))
    IN  IF high < 10 /\ low < 10 THEN OkInt(high * 10 + low) ELSE ErrInt

\* toint_4(s: &[u8])
toint_4(s) ==
    LET a == WrappingSub0(At(s, 0))
        b == WrappingSub0(At(s, 1))
        c == WrappingSub0(At(s, 2))
        d == WrappingSub0(At(s, 3))
    IN  IF a < 10 /\ b < 10 /\ c < 10 /\ d < 10
        THEN OkInt(a * 1000 + b * 100 + c * 10 + d) ELSE ErrInt

\* All of the field results are Ok: the struct is built, else the first `?`
\* returns the one Error.
Build(sec, min, hour, day, mon, year, wday) ==
    IF sec.ok /\ min.ok /\ hour.ok /\ day.ok /\ mon # 0 /\ year.ok /\ wday # 0
    THEN OkDate([sec |-> sec.v, min |-> min.v, hour |-> hour.v, day |-> day.v,
                 mon |-> mon, year |-> year.v, wday |-> wday])
    ELSE ErrDate

(***************************************************************************)
(* parse_imf_fixdate.  Example: Sun, 06 Nov 1994 08:49:37 GMT              *)
(***************************************************************************)
\* match &s[7..12]: the month, 0 for the arm that returns Err
imf_mon(x) ==
    CASE x = SP \o Jan \o SP -> 1
      [] x = SP \o Feb \o SP -> 2
      [] x = SP \o Mar \o SP -> 3
      [] x = SP \o Apr \o SP -> 4
      [] x = SP \o May \o SP -> 5
      [] x = SP \o Jun \o SP -> 6
      [] x = SP \o Jul \o SP -> 7
      [] x = SP \o Aug \o SP -> 8
      [] x = SP \o Sep \o SP -> 9
      [] x = SP \o Oct \o SP -> 10
      [] x = SP \o Nov \o SP -> 11
      [] x = SP \o Dec \o SP -> 12
      [] OTHER -> 0

\* match &s[..5]: the weekday, 0 for the arm that returns Err
imf_wday(x) ==
    CASE x = Mon \o COMMA \o SP -> 1
      [] x = Tue \o COMMA \o SP -> 2
      [] x = Wed \o COMMA \o SP -> 3
      [] x = Thu \o COMMA \o SP -> 4
      [] x = Fri \o COMMA \o SP -> 5
      [] x = Sat \o COMMA \o SP -> 6
      [] x = Sun \o COMMA \o SP -> 7
      [] OTHER -> 0

\* parse_imf_fixdate(s: &[u8])
parse_imf_fixdate(s) ==
    IF \/ Len(s) # 29
       \/ Slice(s, 25, Len(s)) # SpGMT
       \/ At(s, 16) # 32
       \/ At(s, 19) # 58
       \/ At(s, 22) # 58
    THEN ErrDate
    ELSE IF Len(s) < 25 THEN PanicParse  \* the slices below reach &s[23..25]
    ELSE Build(toint_2(Slice(s, 23, 25)),
               toint_2(Slice(s, 20, 22)),
               toint_2(Slice(s, 17, 19)),
               toint_2(Slice(s, 5, 7)),
               imf_mon(Slice(s, 7, 12)),
               toint_4(Slice(s, 12, 16)),
               imf_wday(Slice(s, 0, 5)))

(***************************************************************************)
(* parse_rfc850_date.  Example: Sunday, 06-Nov-94 08:49:37 GMT             *)
(***************************************************************************)
\* fn wday(s, wday, name): Some((wday, rest)) when s starts with name;
\* &s[0..name.len()] panics when s is shorter than name
rfc850_wday_try(s, wday, name) ==
    IF Len(s) < Len(name)
    THEN [some |-> FALSE, wday |-> 0, rest |-> <<>>, panic |-> TRUE]
    ELSE IF Slice(s, 0, Len(name)) = name
    THEN [some |-> TRUE, wday |-> wday, rest |-> Slice(s, Len(name), Len(s)),
          panic |-> FALSE]
    ELSE [some |-> FALSE, wday |-> 0, rest |-> <<>>, panic |-> FALSE]

\* b"Monday, " ... b"Sunday, " in the order they are tried
rfc850_names == <<MondayCS, TuesdayCS, WednesdayCS, ThursdayCS, FridayCS,
                  SaturdayCS, SundayCS>>

\* wday(s, i, ..).or_else(|| wday(s, i + 1, ..)) ... : the names from the
\* i-th on, tried in turn until one matches
RECURSIVE rfc850_wday_from(_, _)
rfc850_wday_from(s, i) ==
    IF i > 7 THEN [some |-> FALSE, wday |-> 0, rest |-> <<>>, panic |-> FALSE]
    ELSE Pick({ IF r.panic \/ r.some THEN r ELSE rfc850_wday_from(s, i + 1) :
                r \in {rfc850_wday_try(s, i, rfc850_names[i])} })

\* wday(s, 1, b"Monday, ").or_else(...) ... : the first name that matches
rfc850_wday(s) == rfc850_wday_from(s, 1)

\* A faulty variant: May is spelled "Mai" (as in httpdate.rs).
rfc850_mon_mai(x) ==
    CASE x = DASH \o Jan \o DASH -> 1
      [] x = DASH \o Feb \o DASH -> 2
      [] x = DASH \o Mar \o DASH -> 3
      [] x = DASH \o Apr \o DASH -> 4
      [] x = <<45, 77, 97, 105, 45>> -> 5
      [] x = DASH \o Jun \o DASH -> 6
      [] x = DASH \o Jul \o DASH -> 7
      [] x = DASH \o Aug \o DASH -> 8
      [] x = DASH \o Sep \o DASH -> 9
      [] x = DASH \o Oct \o DASH -> 10
      [] x = DASH \o Nov \o DASH -> 11
      [] x = DASH \o Dec \o DASH -> 12
      [] OTHER -> 0

\* match &s[2..7]: the month, 0 for the arm that returns Err
rfc850_mon(x) ==
    CASE x = DASH \o Jan \o DASH -> 1
      [] x = DASH \o Feb \o DASH -> 2
      [] x = DASH \o Mar \o DASH -> 3
      [] x = DASH \o Apr \o DASH -> 4
      [] x = DASH \o May \o DASH -> 5
      [] x = DASH \o Jun \o DASH -> 6
      [] x = DASH \o Jul \o DASH -> 7
      [] x = DASH \o Aug \o DASH -> 8
      [] x = DASH \o Sep \o DASH -> 9
      [] x = DASH \o Oct \o DASH -> 10
      [] x = DASH \o Nov \o DASH -> 11
      [] x = DASH \o Dec \o DASH -> 12
      [] OTHER -> 0

\* A faulty variant: the century is chosen at 50, not at 70.
rfc850_year_pivot_50(yy) == IF yy < 50 THEN yy + 2000 ELSE yy + 1900

\* if year < 70 { year += 2000 } else { year += 1900 }
rfc850_year(yy) == IF yy < 70 THEN yy + 2000 ELSE yy + 1900

\* parse_rfc850_date after the weekday name: s is what follows the name
rfc850_rest(wday, s) ==
    IF \/ Len(s) # 22
       \/ At(s, 12) # 58
       \/ At(s, 15) # 58
       \/ Slice(s, 18, 22) # SpGMT
    THEN ErrDate
    ELSE IF Len(s) < 18 THEN PanicParse  \* the slices below reach &s[16..18]
    ELSE Pick({ Build(toint_2(Slice(s, 16, 18)),
                      toint_2(Slice(s, 13, 15)),
                      toint_2(Slice(s, 10, 12)),
                      toint_2(Slice(s, 0, 2)),
                      rfc850_mon(Slice(s, 2, 7)),
                      IF yy.ok THEN OkInt(rfc850_year(yy.v)) ELSE ErrInt,
                      wday) :
                yy \in {toint_2(Slice(s, 7, 9))} })

\* A faulty variant: without the check of the length before the weekday
\* names are sliced.
parse_rfc850_date_unguarded(s0) ==
    Pick({ IF w.panic THEN PanicParse
           ELSE IF ~w.some THEN ErrDate
           ELSE rfc850_rest(w.wday, w.rest) :
           w \in {rfc850_wday(s0)} })

\* parse_rfc850_date(s: &[u8])
parse_rfc850_date(s0) ==
    IF Len(s0) < 23 THEN ErrDate
    ELSE Pick({ IF w.panic THEN PanicParse
                ELSE IF ~w.some THEN ErrDate
                ELSE rfc850_rest(w.wday, w.rest) :
                w \in {rfc850_wday(s0)} })

(***************************************************************************)
(* parse_asctime.  Example: Sun Nov  6 08:49:37 1994                       *)
(***************************************************************************)
\* match &s[4..8]: the month, 0 for the arm that returns Err
asctime_mon(x) ==
    CASE x = Jan \o SP -> 1
      [] x = Feb \o SP -> 2
      [] x = Mar \o SP -> 3
      [] x = Apr \o SP -> 4
      [] x = May \o SP -> 5
      [] x = Jun \o SP -> 6
      [] x = Jul \o SP -> 7
      [] x = Aug \o SP -> 8
      [] x = Sep \o SP -> 9
      [] x = Oct \o SP -> 10
      [] x = Nov \o SP -> 11
      [] x = Dec \o SP -> 12
      [] OTHER -> 0

\* match &s[0..4]: the weekday, 0 for the arm that returns Err
asctime_wday(x) ==
    CASE x = Mon \o SP -> 1
      [] x = Tue \o SP -> 2
      [] x = Wed \o SP -> 3
      [] x = Thu \o SP -> 4
      [] x = Fri \o SP -> 5
      [] x = Sat \o SP -> 6
      [] x = Sun \o SP -> 7
      [] OTHER -> 0

\* A faulty variant: bytes after the 24th are allowed.
parse_asctime_prefix(s) ==
    IF \/ Len(s) < 24
       \/ At(s, 10) # 32
       \/ At(s, 13) # 58
       \/ At(s, 16) # 58
       \/ At(s, 19) # 32
    THEN ErrDate
    ELSE LET x == Slice(s, 8, 10)
         IN  Build(toint_2(Slice(s, 17, 19)),
                   toint_2(Slice(s, 14, 16)),
                   toint_2(Slice(s, 11, 13)),
                   IF At(x, 0) = 32 THEN toint_1(At(x, 1)) ELSE toint_2(x),
                   asctime_mon(Slice(s, 4, 8)),
                   toint_4(Slice(s, 20, 24)),
                   asctime_wday(Slice(s, 0, 4)))

\* parse_asctime(s: &[u8])
parse_asctime(s) ==
    IF \/ Len(s) # 24
       \/ At(s, 10) # 32
       \/ At(s, 13) # 58
       \/ At(s, 16) # 58
       \/ At(s, 19) # 32
    THEN ErrDate
    ELSE IF Len(s) < 24 THEN PanicParse  \* the slices below reach &s[20..24]
    ELSE LET x == Slice(s, 8, 10)
         IN  Build(toint_2(Slice(s, 17, 19)),
                   toint_2(Slice(s, 14, 16)),
                   toint_2(Slice(s, 11, 13)),
                   IF At(x, 0) = 32 THEN toint_1(At(x, 1)) ELSE toint_2(x),
                   asctime_mon(Slice(s, 4, 8)),
                   toint_4(Slice(s, 20, 24)),
                   asctime_wday(Slice(s, 0, 4)))

(***************************************************************************)
(* FromStr: the dispatcher and the validity gate.                          *)
(***************************************************************************)
\* str::is_ascii
is_ascii(s) == \A i \in 1..Len(s) : s[i] < 128

\* char::is_whitespace on ASCII: tab, line feed, vertical tab, form feed,
\* carriage return, space
is_whitespace(b) == b \in {9, 10, 11, 12, 13, 32}

\* str::trim
RECURSIVE trim_start(_)
trim_start(s) ==
    IF s # <<>> /\ is_whitespace(Head(s)) THEN trim_start(Tail(s)) ELSE s
RECURSIVE trim_end(_)
trim_end(s) ==
    IF s # <<>> /\ is_whitespace(s[Len(s)])
    THEN trim_end(SubSeq(s, 1, Len(s) - 1)) ELSE s

\* A faulty variant: only the whitespace before the date is removed.
trim_leading_only(s) == trim_start(s)

\* str::trim, both ends
trim(s) == trim_end(trim_start(s))

\* parse_imf_fixdate(x).or_else(|_| parse_rfc850_date(x))
\*                      .or_else(|_| parse_asctime(x))
parse_any(x) ==
    Pick({ IF a.ok \/ a.panic THEN a
           ELSE Pick({ IF b.ok \/ b.panic THEN b ELSE parse_asctime(x) :
                       b \in {parse_rfc850_date(x)} }) :
           a \in {parse_imf_fixdate(x)} })

\* impl FromStr for HttpDate: from_str(s: &str)
from_str(s) ==
    IF ~is_ascii(s) THEN ErrDate
    ELSE Pick({ Pick({ IF date.panic THEN PanicParse
                       ELSE IF ~date.ok THEN ErrDate
                       ELSE IF ~is_valid(date.v) THEN ErrDate
                       ELSE OkDate(date.v) :
                       date \in {parse_any(x)} }) :
                x \in {trim(s)} })

(***************************************************************************)
(* Display: the formatter.                                                 *)
(***************************************************************************)
\* b"   , 00     0000 00:00:00 GMT"
\* A faulty variant: the zone is written "UTC".
BufTemplate_utc == <<32, 32, 32, 44, 32, 48, 48, 32, 32, 32, 32, 32, 48, 48, 48, 48, 32, 48, 48, 58, 48, 48, 58, 48, 48, 32, 85, 84, 67>>

BufTemplate == <<32, 32, 32, 44, 32, 48, 48, 32, 32, 32, 32, 32, 48, 48, 48, 48, 32, 48, 48, 58, 48, 48, 58, 48, 48, 32, 71, 77, 84>>

\* A faulty variant: the names start from Sunday.
fmt_wday_sunday_first(wday) ==
    CASE wday = 1 -> Sun [] wday = 2 -> Mon [] wday = 3 -> Tue [] wday = 4 -> Wed
      [] wday = 5 -> Thu [] wday = 6 -> Fri [] wday = 7 -> Sat [] OTHER -> <<>>

\* match self.wday: <<>> for the unreachable!() arm
fmt_wday(wday) ==
    CASE wday = 1 -> Mon [] wday = 2 -> Tue [] wday = 3 -> Wed [] wday = 4 -> Thu
      [] wday = 5 -> Fri [] wday = 6 -> Sat [] wday = 7 -> Sun [] OTHER -> <<>>

\* A faulty variant: May is written "Mai" (as in httpdate.rs).
fmt_mon_mai(mon) ==
    CASE mon = 1 -> Jan [] mon = 2 -> Feb [] mon = 3 -> Mar [] mon = 4 -> Apr
      [] mon = 5 -> <<77, 97, 105>> [] mon = 6 -> Jun [] mon = 7 -> Jul [] mon = 8 -> Aug
      [] mon = 9 -> Sep [] mon = 10 -> Oct [] mon = 11 -> Nov [] mon = 12 -> Dec
      [] OTHER -> <<>>

\* match self.mon: <<>> for the unreachable!() arm
fmt_mon(mon) ==
    CASE mon = 1 -> Jan [] mon = 2 -> Feb [] mon = 3 -> Mar [] mon = 4 -> Apr
      [] mon = 5 -> May [] mon = 6 -> Jun [] mon = 7 -> Jul [] mon = 8 -> Aug
      [] mon = 9 -> Sep [] mon = 10 -> Oct [] mon = 11 -> Nov [] mon = 12 -> Dec
      [] OTHER -> <<>>

\* impl Display for HttpDate: fmt(&self, f)
fmt(d) ==
    LET wday == fmt_wday(d.wday)
        mon == fmt_mon(d.mon)
    IN  IF wday = <<>> \/ mon = <<>> THEN PanicText
        ELSE Done([BufTemplate EXCEPT
                ![1] = wday[1],
                ![2] = wday[2],
                ![3] = wday[3],
                ![6] = 48 + (d.day \div 10),
                ![7] = 48 + (d.day % 10),
                ![9] = mon[1],
                ![10] = mon[2],
                ![11] = mon[3],
                ![13] = 48 + (d.year \div 1000),
                ![14] = 48 + ((d.year \div 100) % 10),
                ![15] = 48 + ((d.year \div 10) % 10),
                ![16] = 48 + (d.year % 10),
                ![18] = 48 + (d.hour \div 10),
                ![19] = 48 + (d.hour % 10),
                ![21] = 48 + (d.min \div 10),
                ![22] = 48 + (d.min % 10),
                ![24] = 48 + (d.sec \div 10),
                ![25] = 48 + (d.sec % 10)])

(***************************************************************************)
(* Ordering and equality.                                                  *)
(***************************************************************************)
\* A faulty variant: the fields are compared in the order of their
\* declaration (what #[derive(Ord)] would do).
cmp_fields(a, b) ==
    LET x == <<a.sec, a.min, a.hour, a.day, a.mon, a.year, a.wday>>
        y == <<b.sec, b.min, b.hour, b.day, b.mon, b.year, b.wday>>
    IN  IF x = y THEN "Equal"
        ELSE LET i == CHOOSE j \in 1..7 : x[j] # y[j] /\ \A k \in 1..(j - 1) : x[k] = y[k]
             IN  IF x[i] < y[i] THEN "Less" ELSE "Greater"

\* impl Ord for HttpDate: cmp(&self, other)
cmp(a, b) ==
    Pick({ InstantCmp(x, y) : x \in {SystemTime_from(a)}, y \in {SystemTime_from(b)} })

\* #[derive(PartialEq)]: field by field
eq(a, b) ==
    /\ a.sec = b.sec /\ a.min = b.min /\ a.hour = b.hour /\ a.day = b.day
    /\ a.mon = b.mon /\ a.year = b.year /\ a.wday = b.wday

(***************************************************************************)
(* The public functions (lib.rs).                                          *)
(***************************************************************************)
NoInstant == [days |-> 0, sod |-> 0]

\* parse_http_date(s): Result<SystemTime, Error> as [ok, v]
parse_http_date(s) ==
    Pick({ IF d.panic THEN [ok |-> FALSE, v |-> NoInstant, panic |-> TRUE]
           ELSE IF ~d.ok THEN [ok |-> FALSE, v |-> NoInstant, panic |-> FALSE]
           ELSE IF SystemTime_from_panics(d.v)
           THEN [ok |-> FALSE, v |-> NoInstant, panic |-> TRUE]
           ELSE [ok |-> TRUE, v |-> SystemTime_from(d.v), panic |-> FALSE] :
           d \in {from_str(s)} })

\* fmt_http_date(d: SystemTime): the String, or the panic of HttpDate::from
fmt_http_date(t) ==
    Pick({ IF d.panic THEN PanicText ELSE fmt(d.v) : d \in {HttpDate_from(t)} })

(***************************************************************************)
(* The written forms a caller supplies: a date's fields in each of the     *)
(* three formats, as in the examples above.  The fields need not form a    *)
(* valid date (second 60, day 0, a weekday that is not the date's).        *)
(***************************************************************************)
Formats == {"imf", "rfc850", "asctime"}

Digits2(n) == <<48 + (n \div 10), 48 + (n % 10)>>
Digits4(n) == <<48 + (n \div 1000), 48 + ((n \div 100) % 10),
                48 + ((n \div 10) % 10), 48 + (n % 10)>>
WdayAbbr == <<Mon, Tue, Wed, Thu, Fri, Sat, Sun>>
WdayFullCS == <<MondayCS, TuesdayCS, WednesdayCS, ThursdayCS, FridayCS,
                SaturdayCS, SundayCS>>
MonAbbr == <<Jan, Feb, Mar, Apr, May, Jun, Jul, Aug, Sep, Oct, Nov, Dec>>
Clock(f) == Digits2(f.hour) \o COLON \o Digits2(f.min) \o COLON \o Digits2(f.sec)

\* The fields f written in format k; RFC 850 keeps the last two digits of the
\* year, asctime pads a one-digit day with a space.
Render(k, f) ==
    CASE k = "imf" ->
            WdayAbbr[f.wday] \o COMMA \o SP \o Digits2(f.day) \o SP
            \o MonAbbr[f.mon] \o SP \o Digits4(f.year) \o SP \o Clock(f) \o SpGMT
      [] k = "rfc850" ->
            WdayFullCS[f.wday] \o Digits2(f.day) \o DASH \o MonAbbr[f.mon] \o DASH
            \o Digits2(f.year % 100) \o SP \o Clock(f) \o SpGMT
      [] k = "asctime" ->
            WdayAbbr[f.wday] \o SP \o MonAbbr[f.mon] \o SP
            \o (IF f.day < 10 THEN SP \o <<48 + f.day>> ELSE Digits2(f.day))
            \o SP \o Clock(f) \o SP \o Digits4(f.year)

(***************************************************************************)
(* Sampled inputs.                                                         *)
(***************************************************************************)
\* 1970-01-01 00:00:00, 1972-02-29 00:00:00, 1994-11-06 08:49:37 (784111777),
\* 1999-12-31 23:59:59, 2000-02-29 00:00:00, 2016-10-02 14:44:11 (1475419451),
\* 2069-12-31 23:59:59, 2100-02-28 23:59:59, 9999-12-31 23:59:59 (253402300799)
AnchorTimes ==
    { [days |-> 0, sod |-> 0], [days |-> 789, sod |-> 0],
      [days |-> 9075, sod |-> 31777], [days |-> 10956, sod |-> 86399],
      [days |-> 11016, sod |-> 0], [days |-> 17076, sod |-> 53051],
      [days |-> 36524, sod |-> 86399], [days |-> 47540, sod |-> 86399],
      [days |-> 2932896, sod |-> 86399] }

\* Instants around the anchors, some before the epoch and some past the last
\* supported second, and a sweep in steps of 31 days, 1 hour, 2 minutes and
\* 5 seconds from 2015-01-01 that visits every month.
SampleTimes ==
    { Instant(a.days + d, a.sod + e) :
        a \in AnchorTimes, d \in -MaxDayOff..MaxDayOff, e \in -MaxSecOff..MaxSecOff }
    \cup { Instant(16436 + 31 * n, 3725 * n) : n \in 0..MaxSweep }

SampleYears == {1000, 1969, 1970, 1972, 1994, 1999, 2000, 2001, 2004, 2005,
                2016, 2069, 2070, 2100, 9999}
SampleDays == {0, 1, 6, 28, 29, 30, 31, 32}

\* The rejected dates of tests::test_parse_bad_date and tests::test2:
\* "Sun, 07 Nov 1994 08:48:37 GMT" and "Sun Nov 10 08:00:00 1000".
ExampleFields ==
    { [sec |-> 37, min |-> 48, hour |-> 8, day |-> 7, mon |-> 11, year |-> 1994, wday |-> 7],
      [sec |-> 0, min |-> 0, hour |-> 8, day |-> 10, mon |-> 11, year |-> 1000, wday |-> 7] }

\* Every sampled year, month, day and weekday at 08:49:37, every sampled
\* hour, minute and second on three dates written with their own weekdays,
\* and the examples.
SampleFields ==
    { [sec |-> 37, min |-> 49, hour |-> 8, day |-> d, mon |-> m, year |-> y, wday |-> w] :
        d \in SampleDays, m \in 1..12, y \in SampleYears, w \in 1..7 }
    \cup
    { [sec |-> s, min |-> mi, hour |-> h, day |-> c[1], mon |-> c[2], year |-> c[3],
       wday |-> c[4]] :
        s \in {0, 37, 59, 60}, mi \in {0, 49, 59, 60}, h \in {0, 8, 23, 24},
        c \in {<<6, 11, 1994, 7>>, <<2, 10, 2016, 7>>, <<1, 1, 1970, 4>>} }
    \cup ExampleFields

\* The second operand of a comparison: a date from an instant, or a date
\* parsed from one of these written forms.
\* The instants: the anchors and the day after four of them, 1994-11-07
\* 08:49:37 (a Monday), 2000-01-01 23:59:59, 2000-03-01 00:00:00 and
\* 2100-03-01 23:59:59.
CmpTimes ==
    AnchorTimes \cup { [days |-> 9076, sod |-> 31777], [days |-> 10957, sod |-> 86399],
                       [days |-> 11017, sod |-> 0], [days |-> 47541, sod |-> 86399] }
CmpFields ==
    { [sec |-> 37, min |-> 49, hour |-> 8, day |-> 6, mon |-> 11, year |-> 1994, wday |-> 7],
      [sec |-> 37, min |-> 49, hour |-> 8, day |-> 29, mon |-> 2, year |-> 2004, wday |-> 7] }

\* Strings that are not the rendering of any fields: a written date with one
\* byte replaced, cut short, with bytes appended, and with whitespace around
\* it.  The dates: Sunday 1994-11-06 08:49:37 of the examples, and Wednesday
\* 1970-01-07 00:00:00, the longest weekday name.
RawFields ==
    { [sec |-> 37, min |-> 49, hour |-> 8, day |-> 6, mon |-> 11, year |-> 1994, wday |-> 7],
      [sec |-> 0, min |-> 0, hour |-> 0, day |-> 7, mon |-> 1, year |-> 1970, wday |-> 3] }

\* '*', '+', 'X' and ' '
ReplBytes == {42, 43, 88, 32}
\* U+00E9 in UTF-8, a character that is not ASCII
NonAscii == <<195, 169>>
\* 'X' and '0'
AppendBytes == {88, 48}
\* ' ' and '\t'
PadBytes == {32, 9}

Repeat(b, n) == [i \in 1..n |-> b]

NoEdit == [op |-> "none", pos |-> 0, byte |-> 0]

\* The edits of string s: the byte at index pos (from 0) replaced by an ASCII
\* byte or by a character that is not ASCII, the first pos bytes kept, pos
\* bytes appended.
Edits(s) ==
    {NoEdit}
    \cup { [op |-> "replace", pos |-> p, byte |-> b] : p \in 0..Len(s) - 1, b \in ReplBytes }
    \cup { [op |-> "nonascii", pos |-> p, byte |-> NonAscii[1]] : p \in 0..Len(s) - 1 }
    \cup { [op |-> "truncate", pos |-> n, byte |-> 0] : n \in 0..Len(s) - 1 }
    \cup { [op |-> "append", pos |-> n, byte |-> b] : n \in 1..MaxPad, b \in AppendBytes }

Apply(s, e) ==
    CASE e.op = "none" -> s
      [] e.op = "replace" -> [s EXCEPT ![e.pos + 1] = e.byte]
      [] e.op = "nonascii" ->
            SubSeq(s, 1, e.pos) \o NonAscii \o SubSeq(s, e.pos + 2, Len(s))
      [] e.op = "truncate" -> SubSeq(s, 1, e.pos)
      [] e.op = "append" -> s \o Repeat(e.byte, e.pos)

\* lead bytes ws, then the edited string, then trail bytes ws
Pads ==
    { [lead |-> 0, trail |-> 0, ws |-> 32] }
    \cup { p \in [lead : 0..MaxPad, trail : 0..MaxPad, ws : PadBytes] :
             p.lead + p.trail > 0 }

RawInputs ==
    UNION { { [k |-> k, f |-> f, edit |-> e, pad |-> p,
               core |-> Apply(Render(k, f), e),
               s |-> Repeat(p.ws, p.lead) \o Apply(Render(k, f), e) \o Repeat(p.ws, p.trail)] :
              e \in Edits(Render(k, f)), p \in Pads } :
            k \in Formats, f \in RawFields }

(***************************************************************************)
(* The state: one run of a caller that starts from an instant or from a    *)
(* written date and passes the value each operation returns to the next:   *)
(* it holds one value at a time, a String, a SystemTime or an HttpDate.    *)
(***************************************************************************)
VARIABLES
    input,   \* what the run starts from: [kind, t, f, raw]
    text,    \* the String held: [set, v]
    time,    \* the SystemTime held: [set, v]
    date,    \* the HttpDate held: [set, v]
    status,  \* of the last operation: "ok", "err" (Error) or "panic"
    log,     \* the operations so far, each with what was held after it
    each,    \* the result of parsing the written date in each format
    other,   \* the second operand of the last comparison: [via, t, v]
    ord,     \* the Ordering the last comparison returned
    equal,   \* what == returned in the last comparison
    tried    \* what each of the three parsers returned for the String held

vars == <<input, text, time, date, status, log, each, other, ord, equal, tried>>

NoText == [set |-> FALSE, v |-> <<>>]
NoTime == [set |-> FALSE, v |-> NoInstant]
NoDateReg == [set |-> FALSE, v |-> NoDate]
Set(v) == [set |-> TRUE, v |-> v]
NoEach == [k \in Formats |-> [ok |-> FALSE, v |-> NoInstant, panic |-> FALSE]]
NoOther == [via |-> "none", t |-> NoInstant, v |-> NoDate]
NoRaw == [k |-> "", f |-> NoDate, edit |-> NoEdit, pad |-> [lead |-> 0, trail |-> 0, ws |-> 32],
          core |-> <<>>, s |-> <<>>]
NoTried == [set |-> FALSE, s |-> <<>>, by |-> [k \in Formats |-> ErrDate], any |-> ErrDate]

Init ==
    /\ \/ \E t \in SampleTimes :
            /\ input = [kind |-> "instant", t |-> t, f |-> NoDate, raw |-> NoRaw]
            /\ time = Set(t)
            /\ text = NoText
       \/ \E f \in SampleFields :
            /\ input = [kind |-> "written", t |-> NoInstant, f |-> f, raw |-> NoRaw]
            /\ time = NoTime
            /\ text = NoText
       \/ \E r \in RawInputs :
            /\ input = [kind |-> "raw", t |-> NoInstant, f |-> NoDate, raw |-> r]
            /\ time = NoTime
            /\ text = Set(r.s)
    /\ date = NoDateReg
    /\ status = "ok"
    /\ log = <<>>
    /\ each = NoEach
    /\ other = NoOther
    /\ ord = "none"
    /\ equal = FALSE
    /\ tried = NoTried

\* An operation may follow: the last one returned, and the run is not over.
CanCall == status = "ok" /\ Len(log) < MaxOps

\* The operation `op` (on format k, if any) ended with status st, leaving
\* tx, tm and dt held.
Record(op, k, tx, tm, dt, st) ==
    /\ text' = tx
    /\ time' = tm
    /\ date' = dt
    /\ status' = st
    /\ log' = Append(log, [op |-> op, k |-> k, status |-> st,
                           text |-> tx, time |-> tm, date |-> dt])

\* parse_http_date of string s
DoParse(k, s) ==
    \E r \in {parse_http_date(s)} :
        Record("parse_http_date", k, NoText,
               IF r.ok THEN Set(r.v) ELSE NoTime, NoDateReg,
               IF r.ok THEN "ok" ELSE IF r.panic THEN "panic" ELSE "err")

\* s.parse::<HttpDate>() of string s
DoFromStr(k, s) ==
    \E r \in {from_str(s)} :
        Record("from_str", k, NoText, NoTime,
               IF r.ok THEN Set(r.v) ELSE NoDateReg,
               IF r.ok THEN "ok" ELSE IF r.panic THEN "panic" ELSE "err")

\* parse_http_date of the written date, in format k
ParseWritten(k) ==
    /\ CanCall /\ input.kind = "written" /\ log = <<>>
    /\ \E s \in {Render(k, input.f)} : DoParse(k, s)
    /\ UNCHANGED <<input, each, other, ord, equal, tried>>

\* HttpDate::from_str of the written date, in format k
FromStrWritten(k) ==
    /\ CanCall /\ input.kind = "written" /\ log = <<>>
    /\ \E s \in {Render(k, input.f)} : DoFromStr(k, s)
    /\ UNCHANGED <<input, each, other, ord, equal, tried>>

\* parse_http_date of the written date in every format (tests::test_rfc_example)
ParseFormats ==
    /\ CanCall /\ input.kind = "written" /\ log = <<>>
    /\ each' = [k \in Formats |-> parse_http_date(Render(k, input.f))]
    /\ Record("parse_formats", "", NoText, NoTime, NoDateReg, "ok")
    /\ UNCHANGED <<input, other, ord, equal, tried>>

\* parse_http_date of the String held
ParseText ==
    /\ CanCall /\ text.set
    /\ DoParse("", text.v)
    /\ UNCHANGED <<input, each, other, ord, equal, tried>>

\* HttpDate::from_str of the String held
FromStrText ==
    /\ CanCall /\ text.set
    /\ DoFromStr("", text.v)
    /\ UNCHANGED <<input, each, other, ord, equal, tried>>

\* Each of parse_imf_fixdate, parse_rfc850_date and parse_asctime on the
\* trimmed String held, next to what their chain in from_str returns for it
TryParsers ==
    /\ CanCall /\ text.set /\ is_ascii(text.v)
    /\ \E x \in {trim(text.v)} :
           tried' = [set |-> TRUE, s |-> x,
                     by |-> [k \in Formats |->
                                CASE k = "imf" -> parse_imf_fixdate(x)
                                  [] k = "rfc850" -> parse_rfc850_date(x)
                                  [] k = "asctime" -> parse_asctime(x)],
                     any |-> parse_any(x)]
    /\ Record("parsers", "", text, NoTime, NoDateReg, "ok")
    /\ UNCHANGED <<input, each, other, ord, equal>>

\* fmt_http_date of the SystemTime held
FmtHttpDate ==
    /\ CanCall /\ time.set
    /\ \E r \in {fmt_http_date(time.v)} :
           Record("fmt_http_date", "", IF r.panic THEN NoText ELSE Set(r.v), NoTime, NoDateReg,
                  IF r.panic THEN "panic" ELSE "ok")
    /\ UNCHANGED <<input, each, other, ord, equal, tried>>

\* HttpDate::from of the SystemTime held
FromSystemTime ==
    /\ CanCall /\ time.set
    /\ \E r \in {HttpDate_from(time.v)} :
           Record("HttpDate_from", "", NoText, NoTime, IF r.panic THEN NoDateReg ELSE Set(r.v),
                  IF r.panic THEN "panic" ELSE "ok")
    /\ UNCHANGED <<input, each, other, ord, equal, tried>>

\* SystemTime::from of the HttpDate held
IntoSystemTime ==
    /\ CanCall /\ date.set
    /\ \E r \in {SystemTime_from(date.v)} :
           Record("SystemTime_from", "", NoText, Set(r), NoDateReg, "ok")
    /\ UNCHANGED <<input, each, other, ord, equal, tried>>

\* to_string() of the HttpDate held (Display)
DisplayDate ==
    /\ CanCall /\ date.set
    /\ \E r \in {fmt(date.v)} :
           Record("fmt", "", IF r.panic THEN NoText ELSE Set(r.v), NoTime, NoDateReg,
                  IF r.panic THEN "panic" ELSE "ok")
    /\ UNCHANGED <<input, each, other, ord, equal, tried>>

\* HttpDate::from of the SystemTime held, in the earlier revision
LegacyFromSystemTime ==
    /\ CanCall /\ time.set
    /\ \E r \in {legacy_HttpDate_from(time.v)} :
           Record("legacy_HttpDate_from", "", NoText, NoTime,
                  IF r.panic THEN NoDateReg ELSE Set(r.v),
                  IF r.panic THEN "panic" ELSE "ok")
    /\ UNCHANGED <<input, each, other, ord, equal, tried>>

\* SystemTime::from of the HttpDate held, in the earlier revision
LegacyIntoSystemTime ==
    /\ CanCall /\ date.set
    /\ \E r \in {legacy_SystemTime_from(date.v)} :
           Record("legacy_SystemTime_from", "", NoText, Set(r), NoDateReg, "ok")
    /\ UNCHANGED <<input, each, other, ord, equal, tried>>

\* The HttpDate held compared (cmp, ==) with the date `o`
DoCompare(via, t, o) ==
    /\ other' = [via |-> via, t |-> t, v |-> o]
    /\ ord' = cmp(date.v, o)
    /\ equal' = eq(date.v, o)
    /\ Record("cmp", "", NoText, NoTime, NoDateReg, "ok")
    /\ UNCHANGED <<input, each, tried>>

\* ... with the date of an instant b
CompareInstant(b) ==
    /\ CanCall /\ date.set
    /\ \E r \in {HttpDate_from(b)} :
           ~r.panic /\ DoCompare("instant", b, r.v)

\* ... with the date parsed from fields f written in format k
CompareParsed(k, f) ==
    /\ CanCall /\ date.set
    /\ \E r \in {from_str(Render(k, f))} :
           r.ok /\ DoCompare(k, NoInstant, r.v)

Next ==
    \/ \E k \in Formats : ParseWritten(k)
    \/ \E k \in Formats : FromStrWritten(k)
    \/ ParseFormats
    \/ ParseText
    \/ FromStrText
    \/ TryParsers
    \/ FmtHttpDate
    \/ FromSystemTime
    \/ IntoSystemTime
    \/ DisplayDate
    \/ LegacyFromSystemTime
    \/ LegacyIntoSystemTime
    \/ \E b \in CmpTimes : CompareInstant(b)
    \/ \E k \in Formats, f \in CmpFields : CompareParsed(k, f)

Spec == Init /\ [][Next]_vars

(***************************************************************************)
(* Properties.                                                             *)
(***************************************************************************)
\* What was held before operation i of the run, and after it.
TimeAfter(i) ==
    IF i = 0 THEN (IF input.kind = "instant" THEN Set(input.t) ELSE NoTime)
    ELSE log[i].time
DateAfter(i) == IF i = 0 THEN NoDateReg ELSE log[i].date

\* 0 <= t < 253402300800 seconds, in days of 86400 seconds
InRange(t) == t.days >= 0 /\ t.days < 2932897

IsDigit(b) == b >= 48 /\ b <= 57

\* C1: for every instant t with 0 <= t < 253402300800 whole seconds,
\* fmt_http_date(t) returns a string and parse_http_date of that string
\* returns Ok(t): formatting then parsing is the identity on the range.
C1_RoundTrip ==
    \A i \in 1..Len(log) :
        (log[i].op = "fmt_http_date" /\ InRange(TimeAfter(i - 1).v)) =>
            /\ log[i].status = "ok"
            /\ (i < Len(log) /\ log[i + 1].op = "parse_http_date") =>
                   /\ log[i + 1].status = "ok"
                   /\ log[i + 1].time = TimeAfter(i - 1)

\* The last supported second, 9999-12-31 23:59:59, formatted and parsed back.
C1_Witness ==
    /\ input.kind = "instant"
    /\ input.t = [days |-> 2932896, sod |-> 86399]
    /\ Len(log) = 2
    /\ log[1].op = "fmt_http_date"
    /\ log[2].op = "parse_http_date"
    /\ time = Set(input.t)

\* C2: the string fmt_http_date and Display produce is exactly 29 ASCII
\* bytes "Www, dd Mon yyyy HH:MM:SS GMT": a weekday and a month name from the
\* tables, zero-padded decimal fields, ',' and ' ' at offsets 3-4, ' ' at 7,
\* 11 and 16, ':' at 19 and 22, " GMT" at 25-28; and it spells the fields
\* of the date it was produced from.
C2_FixedLayout ==
    \A i \in 1..Len(log) :
        (/\ log[i].status = "ok"
         /\ \/ log[i].op = "fmt_http_date"
            \/ log[i].op = "fmt" /\ log[i - 1].op \in {"HttpDate_from", "from_str"}) =>
            LET s == log[i].text.v
                d == IF log[i].op = "fmt" THEN DateAfter(i - 1).v
                     ELSE HttpDate_from(TimeAfter(i - 1).v).v
            IN  /\ Len(s) = 29
                /\ \A j \in 1..Len(s) : s[j] >= 0 /\ s[j] < 128
                /\ Slice(s, 0, 3) \in {Mon, Tue, Wed, Thu, Fri, Sat, Sun}
                /\ Slice(s, 8, 11) \in {Jan, Feb, Mar, Apr, May, Jun, Jul, Aug, Sep,
                                        Oct, Nov, Dec}
                /\ \A j \in {5, 6, 12, 13, 14, 15, 17, 18, 20, 21, 23, 24} : IsDigit(At(s, j))
                /\ At(s, 3) = 44 /\ At(s, 4) = 32
                /\ At(s, 7) = 32 /\ At(s, 11) = 32 /\ At(s, 16) = 32
                /\ At(s, 19) = 58 /\ At(s, 22) = 58
                /\ Slice(s, 25, 29) = <<32, 71, 77, 84>>
                /\ s = Render("imf", d)

\* A date with a one-digit day, parsed from its asctime form and displayed:
\* the day is written with a leading zero.
C2_Witness ==
    /\ input.kind = "written"
    /\ input.f.day = 6
    /\ Len(log) = 2
    /\ log[1].op = "from_str" /\ log[1].k = "asctime"
    /\ log[2].op = "fmt"
    /\ text.set
    /\ Slice(text.v, 5, 7) = <<48, 54>>
    /\ Len(text.v) = 29

\* A valid date, by the data model: every field in range, the day within
\* the month, the weekday that of the date.
ValidDate(f) ==
    /\ f.sec \in 0..59 /\ f.min \in 0..59 /\ f.hour \in 0..23
    /\ f.mon \in 1..12 /\ f.year \in 1970..9999
    /\ f.day >= 1 /\ f.day <= days_in_month(f.year, f.mon)
    /\ f.wday \in 1..7
    /\ f.wday = date_to_weekday(f.year, f.mon, f.day)

\* C3: for any valid date whose year is in 1970..2069, its IMF-fixdate,
\* RFC 850 and asctime renderings all parse successfully, to the same
\* instant; "Sun, 06 Nov 1994 08:49:37 GMT", "Sunday, 06-Nov-94 08:49:37 GMT"
\* and "Sun Nov  6 08:49:37 1994" all parse to 784111777 = 9075 * 86400 + 31777.
C3_CrossFormat ==
    (/\ log # <<>>
     /\ log[1].op = "parse_formats"
     /\ ValidDate(input.f)
     /\ input.f.year \in 1970..2069) =>
        /\ \A k \in Formats : each[k].ok
        /\ \A k \in Formats : each[k].v = each["imf"].v
        /\ (input.f = [sec |-> 37, min |-> 49, hour |-> 8, day |-> 6, mon |-> 11,
                       year |-> 1994, wday |-> 7]) =>
               /\ Render("imf", input.f)
                    = <<83, 117, 110, 44, 32, 48, 54, 32, 78, 111, 118, 32, 49, 57, 57, 52,
                        32, 48, 56, 58, 52, 57, 58, 51, 55, 32, 71, 77, 84>>
               /\ Render("rfc850", input.f)
                    = <<83, 117, 110, 100, 97, 121, 44, 32, 48, 54, 45, 78, 111, 118, 45,
                        57, 52, 32, 48, 56, 58, 52, 57, 58, 51, 55, 32, 71, 77, 84>>
               /\ Render("asctime", input.f)
                    = <<83, 117, 110, 32, 78, 111, 118, 32, 32, 54, 32, 48, 56, 58, 52, 57,
                        58, 51, 55, 32, 49, 57, 57, 52>>
               /\ \A k \in Formats : each[k].v = [days |-> 9075, sod |-> 31777]

\* The three example strings, parsed.
C3_Witness ==
    /\ input.kind = "written"
    /\ input.f = [sec |-> 37, min |-> 49, hour |-> 8, day |-> 6, mon |-> 11,
                  year |-> 1994, wday |-> 7]
    /\ Len(log) = 1
    /\ log[1].op = "parse_formats"
    /\ \A k \in Formats : each[k].ok /\ each[k].v = [days |-> 9075, sod |-> 31777]

\* The year a reader of format k takes from the written fields f: RFC 850
\* writes two digits, read as 1970..2069.
YearRead(k, f) ==
    IF k = "rfc850"
    THEN (IF f.year % 100 < 70 THEN 2000 + (f.year % 100) ELSE 1900 + (f.year % 100))
    ELSE f.year

\* The fields a reader of format k takes from the written fields f.
FieldsRead(k, f) == [f EXCEPT !.year = YearRead(k, f)]

\* Operation i of the run parses (or is part of parsing) the written date.
ParsesWritten(i) ==
    /\ i = 1
    /\ input.kind = "written"
    /\ log[i].op \in {"parse_http_date", "from_str"}

\* C4: in each of the three formats, an input whose written weekday is not
\* the weekday of its (year, month, day) fails to parse, even when every
\* other field is in range: "Sun, 07 Nov 1994 08:48:37 GMT" fails, since
\* 1994-11-07 is a Monday.
C4_WeekdayMismatch ==
    /\ \A i \in 1..Len(log) :
           (/\ ParsesWritten(i)
            /\ ValidDate([FieldsRead(log[i].k, input.f) EXCEPT
                   !.wday = date_to_weekday(YearRead(log[i].k, input.f),
                                            input.f.mon, input.f.day)])
            /\ input.f.wday # date_to_weekday(YearRead(log[i].k, input.f),
                                              input.f.mon, input.f.day)) =>
               log[i].status = "err"
    /\ \A k \in Formats :
           (/\ log # <<>>
            /\ log[1].op = "parse_formats"
            /\ ValidDate([FieldsRead(k, input.f) EXCEPT
                   !.wday = date_to_weekday(YearRead(k, input.f), input.f.mon, input.f.day)])
            /\ input.f.wday # date_to_weekday(YearRead(k, input.f), input.f.mon, input.f.day)) =>
               ~each[k].ok

\* "Sun, 07 Nov 1994 08:48:37 GMT", a Monday written as a Sunday, rejected.
C4_Witness ==
    /\ input.kind = "written"
    /\ input.f = [sec |-> 37, min |-> 48, hour |-> 8, day |-> 7, mon |-> 11,
                  year |-> 1994, wday |-> 7]
    /\ date_to_weekday(1994, 11, 7) = 1
    /\ Len(log) = 1
    /\ log[1].op = "parse_http_date" /\ log[1].k = "imf"
    /\ status = "err"

\* C5: every HttpDate that parsing returns Ok has sec 0-59, min 0-59,
\* hour 0-23, mon 1-12, year 1970-9999, 1 <= day <= days_in_month(year, mon)
\* and wday 1-7; a well-formed input with second 60, minute 60, hour 24,
\* day 00, February 30 or a year below 1970 ("Sun Nov 10 08:00:00 1000") is
\* rejected.
C5_ParsedDateInvariants ==
    /\ \A i \in 1..Len(log) :
           (log[i].op = "from_str" /\ log[i].status = "ok") =>
               LET d == log[i].date.v
               IN  /\ log[i].date.set
                   /\ d.sec \in 0..59 /\ d.min \in 0..59 /\ d.hour \in 0..23
                   /\ d.mon \in 1..12 /\ d.year \in 1970..9999
                   /\ d.day >= 1 /\ d.day <= days_in_month(d.year, d.mon)
                   /\ d.wday \in 1..7
    /\ \A i \in 1..Len(log) :
           (/\ ParsesWritten(i)
            /\ \/ input.f.sec = 60
               \/ input.f.min = 60
               \/ input.f.hour = 24
               \/ input.f.day = 0
               \/ input.f.mon = 2 /\ input.f.day = 30
               \/ YearRead(log[i].k, input.f) < 1970) =>
               log[i].status = "err"

\* "Sun Nov 10 08:00:00 1000", rejected.
C5_Witness ==
    /\ input.kind = "written"
    /\ input.f = [sec |-> 0, min |-> 0, hour |-> 8, day |-> 10, mon |-> 11,
                  year |-> 1000, wday |-> 7]
    /\ Len(log) = 1
    /\ log[1].op = "from_str" /\ log[1].k = "asctime"
    /\ status = "err"
    /\ ~date.set

\* C6: for any two in-range whole-second instants a and b,
\* HttpDate::from(a).cmp(HttpDate::from(b)) is a.cmp(b), so a < b gives
\* date(a) < date(b), also across month, year and February 29 boundaries,
\* where the order of the fields as declared (sec, min, hour, day, mon, year)
\* would differ.
C6_ChronologicalOrder ==
    (/\ Len(log) >= 2
     /\ log[Len(log)].op = "cmp"
     /\ log[Len(log) - 1].op = "HttpDate_from"
     /\ other.via = "instant"
     /\ InRange(TimeAfter(Len(log) - 2).v)
     /\ InRange(other.t)) =>
        LET a == TimeAfter(Len(log) - 2).v
            b == other.t
        IN  /\ ord = (IF a.days < b.days \/ (a.days = b.days /\ a.sod < b.sod) THEN "Less"
                      ELSE IF a = b THEN "Equal" ELSE "Greater")
            /\ ord \in {"Less", "Equal", "Greater"}

\* 2000-02-28 23:59:59 compared with 2000-02-29 00:00:00: Less, though its
\* second, minute, hour and day are the greater.
C6_Witness ==
    /\ input.kind = "instant"
    /\ input.t = [days |-> 11015, sod |-> 86399]
    /\ Len(log) = 2
    /\ log[1].op = "HttpDate_from"
    /\ log[1].date.v.sec = 59 /\ log[1].date.v.day = 28 /\ log[1].date.v.mon = 2
    /\ log[2].op = "cmp"
    /\ other.via = "instant"
    /\ other.t = [days |-> 11016, sod |-> 0]
    /\ other.v.sec = 0 /\ other.v.day = 29 /\ other.v.mon = 2
    /\ ord = "Less"

\* C7: for any two HttpDate values obtained from parsing (in any of the
\* three formats) or from an instant, d1 == d2 holds exactly when their
\* instants are equal, and exactly when d1.cmp(d2) is Equal.
C7_EqualityByInstant ==
    (/\ Len(log) >= 2
     /\ log[Len(log)].op = "cmp"
     /\ log[Len(log) - 1].op \in {"HttpDate_from", "from_str"}) =>
        LET d1 == DateAfter(Len(log) - 1).v
            d2 == other.v
        IN  /\ equal <=> (SystemTime_from(d1) = SystemTime_from(d2))
            /\ equal <=> (ord = "Equal")
            /\ (log[Len(log) - 1].op = "HttpDate_from") =>
                   SystemTime_from(d1) = TimeAfter(Len(log) - 2).v
            /\ (other.via = "instant") => SystemTime_from(d2) = other.t

\* The date of the instant 784111777 and the date parsed from
\* "Sunday, 06-Nov-94 08:49:37 GMT" are equal.
C7_Witness ==
    /\ input.kind = "instant"
    /\ input.t = [days |-> 9075, sod |-> 31777]
    /\ Len(log) = 2
    /\ log[1].op = "HttpDate_from"
    /\ log[2].op = "cmp"
    /\ other.via = "rfc850"
    /\ equal
    /\ ord = "Equal"

\* C8: RFC 850 input with the two-digit year yy is read as 2000 + yy when
\* yy < 70 and as 1900 + yy otherwise (94 -> 1994, 05 -> 2005, 70 -> 1970,
\* 69 -> 2069): a written date that is valid with that year is accepted with
\* that year, and every accepted RFC 850 date has a year in 1970..2069.
C8_TwoDigitYear ==
    /\ \A i \in 1..Len(log) :
           (ParsesWritten(i) /\ log[i].k = "rfc850") =>
               LET yy == input.f.year % 100
                   year == IF yy < 70 THEN 2000 + yy ELSE 1900 + yy
                   f == [input.f EXCEPT !.year = year]
               IN  /\ ValidDate(f) => log[i].status = "ok"
                   /\ (log[i].status = "ok" /\ log[i].op = "from_str") =>
                          /\ log[i].date.v = f
                          /\ log[i].date.v.year \in 1970..2069
                   /\ (log[i].status = "ok" /\ log[i].op = "parse_http_date") =>
                          log[i].time.v = datetime_to_systemtime(year, f.mon, f.day,
                                                                 f.hour, f.min, f.sec)
    /\ (other.via = "rfc850") => other.v.year \in 1970..2069

\* "Saturday, 28-Dec-69 08:49:37 GMT" is read as 2069-12-28.
C8_Witness ==
    /\ input.kind = "written"
    /\ input.f.year % 100 = 69 /\ input.f.mon = 12 /\ input.f.day = 28
    /\ Len(log) = 1
    /\ log[1].op = "from_str" /\ log[1].k = "rfc850"
    /\ status = "ok"
    /\ date.v.year = 2069

\* C9: HttpDate::from panics on every instant at or after 253402300800
\* seconds since the epoch and on every instant before the epoch, and
\* returns for every instant from 0 through 253402300799 (9999-12-31
\* 23:59:59).
C9_InstantRange ==
    \A i \in 1..Len(log) :
        (log[i].op = "HttpDate_from") =>
            LET t == TimeAfter(i - 1).v
            IN  /\ (t.days < 0 \/ t.days >= 2932897) <=> (log[i].status = "panic")
                /\ (t.days >= 0 /\ t.days <= 2932896) <=> (log[i].status = "ok")
                /\ (t = [days |-> 2932896, sod |-> 86399]) =>
                       /\ log[i].date.v.year = 9999 /\ log[i].date.v.mon = 12
                       /\ log[i].date.v.day = 31 /\ log[i].date.v.hour = 23
                       /\ log[i].date.v.min = 59 /\ log[i].date.v.sec = 59

\* The instant 253402300800 itself: a panic.
C9_Witness ==
    /\ input.kind = "instant"
    /\ input.t = [days |-> 2932897, sod |-> 0]
    /\ Len(log) = 1
    /\ log[1].op = "HttpDate_from"
    /\ status = "panic"

\* C10: for every in-range instant the HttpDate converted from it is valid
\* by construction: every field in range, day <= days_in_month(year, mon),
\* wday the weekday of the date; so is_valid holds and Display does not
\* reach an unreachable!() arm.  The same for the iterative conversion.
C10_ValidByConstruction ==
    \A i \in 1..Len(log) :
        (/\ log[i].op \in {"HttpDate_from", "legacy_HttpDate_from"}
         /\ InRange(TimeAfter(i - 1).v)) =>
            /\ log[i].status = "ok"
            /\ ValidDate(log[i].date.v)
            /\ is_valid(log[i].date.v)
            /\ (i < Len(log) /\ log[i + 1].op = "fmt") => log[i + 1].status = "ok"

\* 2000-02-29 00:00:00 converted by the iterative code and displayed.
C10_Witness ==
    /\ input.kind = "instant"
    /\ input.t = [days |-> 11016, sod |-> 0]
    /\ Len(log) = 2
    /\ log[1].op = "legacy_HttpDate_from"
    /\ log[1].date.v.day = 29 /\ log[1].date.v.mon = 2 /\ log[1].date.v.year = 2000
    /\ log[2].op = "fmt"
    /\ status = "ok"

\* The run starts from a String that is not a rendering, and operation 1
\* parses it.
ParsesRaw ==
    /\ input.kind = "raw"
    /\ Len(log) >= 1
    /\ log[1].op \in {"parse_http_date", "from_str"}

\* The indices (from 0) of the separator bytes of fields f written in
\* format k: "Sun, 06 Nov 1994 08:49:37 GMT", "Sunday, 06-Nov-94 08:49:37 GMT"
\* (after a weekday name of n letters) and "Sun Nov  6 08:49:37 1994".
SeparatorsAt(k, f) ==
    CASE k = "imf" -> {3, 4, 7, 11, 16, 19, 22, 25, 26, 27, 28}
      [] k = "rfc850" ->
            { Len(WdayFullCS[f.wday]) - 2 + i :
                i \in {0, 1, 4, 8, 11, 14, 17, 20, 21, 22, 23} }
      [] k = "asctime" -> {3, 7, 10, 13, 16, 19}

\* The String of the run is a written date with one separator byte replaced
\* by another byte or character.
WrongSeparator ==
    /\ input.raw.edit.op \in {"replace", "nonascii"}
    /\ input.raw.edit.pos \in SeparatorsAt(input.raw.k, input.raw.f)
    /\ input.raw.edit.byte # Render(input.raw.k, input.raw.f)[input.raw.edit.pos + 1]

\* C11: in each of the three formats, an input with any byte other than the
\* required separator at a separator position (the comma and space after the
\* weekday, the spaces or dashes around the month, the space between date
\* and time, the two colons, the trailing " GMT") fails to parse.
C11_WrongSeparatorRejected ==
    (ParsesRaw /\ WrongSeparator) => log[1].status = "err"

\* "Sunday, 06-Nov-94 08+49:37 GMT", the '+' at index 20, was rejected.
C11_Witness ==
    /\ ParsesRaw /\ WrongSeparator
    /\ input.raw.k = "rfc850" /\ input.raw.f.wday = 7
    /\ input.raw.edit = [op |-> "replace", pos |-> 20, byte |-> 43]
    /\ input.raw.pad.lead = 0 /\ input.raw.pad.trail = 0
    /\ log[1].status = "err"

\* "Thu, 01 Jan 1970 00:00:00 GMT"
EpochText ==
    Thu \o COMMA \o SP \o <<48, 49>> \o SP \o Jan \o SP \o <<49, 57, 55, 48>> \o SP
    \o <<48, 48>> \o COLON \o <<48, 48>> \o COLON \o <<48, 48>> \o SpGMT

\* The civil day after (year, mon, day) of date d, by the calendar's rules.
NextCivilDay(d) ==
    IF d.day < (IF d.mon = 2
                THEN (IF d.year % 4 = 0 /\ (d.year % 100 # 0 \/ d.year % 400 = 0)
                      THEN 29 ELSE 28)
                ELSE IF d.mon \in {4, 6, 9, 11} THEN 30 ELSE 31)
    THEN <<d.year, d.mon, d.day + 1>>
    ELSE IF d.mon < 12 THEN <<d.year, d.mon + 1, 1>>
    ELSE <<d.year + 1, 1, 1>>

\* Operation i compared the date of an in-range instant t with the date of
\* the instant t + 86400.
ComparesNextDay(i) ==
    /\ i >= 2 /\ i <= Len(log)
    /\ log[i].op = "cmp" /\ other.via = "instant"
    /\ log[i - 1].op = "HttpDate_from" /\ log[i - 1].status = "ok"
    /\ InRange(TimeAfter(i - 2).v) /\ InRange(other.t)
    /\ other.t = Instant(TimeAfter(i - 2).v.days + 1, TimeAfter(i - 2).v.sod)

\* C12: the epoch formats to "Thu, 01 Jan 1970 00:00:00 GMT", and for t and
\* t + 86400 both in range the date of t + 86400 has the hour, minute and
\* second of the date of t, the weekday after its weekday (Monday after
\* Sunday) and the civil day after its day.
C12_NextDay ==
    /\ \A i \in 1..Len(log) :
           (log[i].op = "fmt_http_date" /\ TimeAfter(i - 1).v = [days |-> 0, sod |-> 0]) =>
               log[i].text = Set(EpochText)
    /\ \A i \in 2..Len(log) :
           ComparesNextDay(i) =>
               /\ other.v.hour = DateAfter(i - 1).v.hour
               /\ other.v.min = DateAfter(i - 1).v.min
               /\ other.v.sec = DateAfter(i - 1).v.sec
               /\ other.v.wday = (DateAfter(i - 1).v.wday % 7) + 1
               /\ <<other.v.year, other.v.mon, other.v.day>> = NextCivilDay(DateAfter(i - 1).v)

\* Sunday 1994-11-06 08:49:37 was compared with the day after, a Monday.
C12_Witness ==
    /\ ComparesNextDay(2)
    /\ TimeAfter(0).v = [days |-> 9075, sod |-> 31777]
    /\ DateAfter(1).v.wday = 7
    /\ other.v.wday = 1 /\ other.v.day = 7

\* C13: for every string that parse_http_date accepts with result d, d is
\* at or after the epoch and before 253402300800, fmt_http_date(d) does not
\* panic and returns a string that is not empty, and parse_http_date of
\* that string returns d again.
C13_ParsedFormats ==
    \A i \in 1..Len(log) :
        (log[i].op = "parse_http_date" /\ log[i].status = "ok") =>
            /\ log[i].time.set /\ InRange(log[i].time.v)
            /\ (i < Len(log) /\ log[i + 1].op = "fmt_http_date") =>
                   /\ log[i + 1].status = "ok"
                   /\ log[i + 1].text.set /\ log[i + 1].text.v # <<>>
                   /\ (i + 1 < Len(log) /\ log[i + 2].op = "parse_http_date") =>
                          /\ log[i + 2].status = "ok"
                          /\ log[i + 2].time = log[i].time

\* An asctime date with a tab before it was parsed, the result formatted,
\* and the string parsed to the same instant.
C13_Witness ==
    /\ input.kind = "raw" /\ input.raw.k = "asctime" /\ input.raw.edit.op = "none"
    /\ input.raw.pad = [lead |-> 1, trail |-> 0, ws |-> 9]
    /\ Len(log) = 3
    /\ log[1].op = "parse_http_date" /\ log[1].status = "ok"
    /\ log[2].op = "fmt_http_date" /\ Len(log[2].text.v) = 29
    /\ log[3].op = "parse_http_date" /\ log[3].time = log[1].time

\* C14: parsing is total.  For any input, of any length, the empty string
\* included, and of any bytes, parse_http_date (and from_str) returns Ok or
\* the Error and never panics: no parser slices or indexes out of range,
\* and the conversion of an accepted date to an instant does not fail.
C14_ParsingTotal ==
    /\ \A i \in 1..Len(log) :
           log[i].op \in {"parse_http_date", "from_str"} =>
               log[i].status \in {"ok", "err"}
    /\ tried.set =>
           /\ ~tried.any.panic
           /\ \A k \in Formats : ~tried.by[k].panic

\* The empty string was parsed, and the Error returned.
C14_Witness ==
    /\ input.kind = "raw" /\ input.raw.s = <<>>
    /\ Len(log) = 1
    /\ log[1].op = "parse_http_date" /\ log[1].status = "err"

\* The Gregorian rule: divisible by 4, and not by 100 unless by 400.
LeapRule(y) == y % 4 = 0 /\ (y % 100 # 0 \/ y % 400 = 0)

\* The written date is a 29 February at a valid time of day, in a year y of
\* 1970..9999, with the weekday that follows that of 28 February of y.
WritesLeapDay(f, y) ==
    /\ f.mon = 2 /\ f.day = 29
    /\ f.sec \in 0..59 /\ f.min \in 0..59 /\ f.hour \in 0..23
    /\ y \in 1970..9999
    /\ f.wday = (date_to_weekday(y, 2, 28) % 7) + 1

\* C15: validation follows the leap-year rule.  days_in_month is 28..31,
\* and 29 for February exactly in a year divisible by 4 and not by 100
\* unless by 400 (the rule of is_leap_year); a 29 February with its weekday
\* is accepted exactly in a leap year: in 2000 and 2004, not in 2001 or 2100.
C15_LeapYear ==
    \A i \in 1..Len(log) :
        ParsesWritten(i) =>
            /\ \A m \in 1..12 : days_in_month(YearRead(log[i].k, input.f), m) \in 28..31
            /\ (days_in_month(YearRead(log[i].k, input.f), 2) = 29)
                   <=> LeapRule(YearRead(log[i].k, input.f))
            /\ is_leap_year(YearRead(log[i].k, input.f))
                   <=> LeapRule(YearRead(log[i].k, input.f))
            /\ WritesLeapDay(input.f, YearRead(log[i].k, input.f)) =>
                   ((log[i].status = "ok") <=> LeapRule(YearRead(log[i].k, input.f)))

\* "Mon, 29 Feb 2100 08:49:37 GMT" was rejected: 2100 is not a leap year.
C15_Witness ==
    /\ Len(log) = 1 /\ ParsesWritten(1) /\ log[1].k = "imf"
    /\ input.f.year = 2100 /\ input.f.wday = 1
    /\ WritesLeapDay(input.f, 2100)
    /\ log[1].status = "err"

\* Operation i is `first` and operation i + 1 is `second`, both returned.
CallsInTurn(i, first, second) ==
    /\ i >= 1 /\ i < Len(log)
    /\ log[i].op = first /\ log[i].status = "ok"
    /\ log[i + 1].op = second

\* C16: the two conversions are inverse to each other.
\* SystemTime::from(HttpDate::from(t)) is t for every t with
\* 0 <= t < 253402300800, and HttpDate::from(SystemTime::from(d)) is d for
\* every valid d; the same holds of the iterative conversion paired with
\* the closed-form leap count of the earlier revision.
C16_Bijection ==
    \A i \in 1..Len(log) :
        /\ (CallsInTurn(i, "HttpDate_from", "SystemTime_from") /\ InRange(TimeAfter(i - 1).v)) =>
               log[i + 1].status = "ok" /\ log[i + 1].time = TimeAfter(i - 1)
        /\ (CallsInTurn(i, "SystemTime_from", "HttpDate_from") /\ ValidDate(DateAfter(i - 1).v)) =>
               log[i + 1].status = "ok" /\ log[i + 1].date = DateAfter(i - 1)
        /\ (CallsInTurn(i, "legacy_HttpDate_from", "legacy_SystemTime_from")
            /\ InRange(TimeAfter(i - 1).v)) =>
               log[i + 1].status = "ok" /\ log[i + 1].time = TimeAfter(i - 1)
        /\ (CallsInTurn(i, "legacy_SystemTime_from", "legacy_HttpDate_from")
            /\ ValidDate(DateAfter(i - 1).v)) =>
               log[i + 1].status = "ok" /\ log[i + 1].date = DateAfter(i - 1)

\* The instant 2000-02-29 00:00:01 became a date, and the date that instant.
C16_Witness ==
    /\ input.kind = "instant" /\ input.t = [days |-> 11016, sod |-> 1]
    /\ Len(log) = 2
    /\ CallsInTurn(1, "HttpDate_from", "SystemTime_from")
    /\ log[1].date.v.mon = 2 /\ log[1].date.v.day = 29
    /\ log[2].time = Set(input.t)

\* The orders in which the three parsers can be tried.
ParserOrders ==
    { o \in [1..3 -> Formats] : \A i, j \in 1..3 : i # j => o[i] # o[j] }

\* What a dispatcher trying the parsers in order o returns.
FirstOk(o) ==
    IF tried.by[o[1]].ok THEN tried.by[o[1]]
    ELSE IF tried.by[o[2]].ok THEN tried.by[o[2]]
    ELSE tried.by[o[3]]

\* C17: the three parsers accept pairwise disjoint sets of strings:
\* parse_imf_fixdate only strings of 29 bytes, parse_rfc850_date only of 30
\* to 33 bytes, parse_asctime only of 24 bytes; at most one of them returns
\* Ok for a string, and what the dispatcher returns does not depend on the
\* order in which it tries them.
C17_DisjointParsers ==
    tried.set =>
        /\ tried.by["imf"].ok => Len(tried.s) = 29
        /\ tried.by["rfc850"].ok => Len(tried.s) \in 30..33
        /\ tried.by["asctime"].ok => Len(tried.s) = 24
        /\ Cardinality({ k \in Formats : tried.by[k].ok }) <= 1
        /\ \A o \in ParserOrders : FirstOk(o) = tried.any

\* "Wednesday, 07-Jan-70 00:00:00 GMT" between spaces: 33 bytes once
\* trimmed, read by parse_rfc850_date alone.
C17_Witness ==
    /\ tried.set
    /\ input.raw.k = "rfc850" /\ input.raw.pad = [lead |-> 1, trail |-> 1, ws |-> 32]
    /\ Len(input.raw.s) = 35 /\ Len(tried.s) = 33
    /\ tried.by["rfc850"].ok /\ ~tried.by["imf"].ok /\ ~tried.by["asctime"].ok
    /\ tried.any = tried.by["rfc850"]

\* The string that operation i of the run parsed.
StringParsed(i) ==
    IF i > 1 THEN log[i - 1].text.v
    ELSE IF input.kind = "written" THEN Render(log[1].k, input.f)
    ELSE input.raw.s

\* Operation i parsed, through `parser`, a string of 29 bytes that
\* parse_imf_fixdate reads, and operation i + 1 is `formatter`.
FormatsImfParsed(i, parser, formatter) ==
    /\ i >= 1 /\ i < Len(log)
    /\ log[i].op = parser /\ log[i].status = "ok"
    /\ log[i + 1].op = formatter
    /\ Len(StringParsed(i)) = 29
    /\ parse_imf_fixdate(StringParsed(i)).ok

\* C18: the formatter is the exact inverse of IMF-fixdate parsing.  For
\* every string s of 29 bytes that parses as IMF-fixdate, Display of the
\* parsed HttpDate, and fmt_http_date of the parsed instant, is s byte for
\* byte.
C18_FormatInvertsImf ==
    \A i \in 1..Len(log) :
        /\ FormatsImfParsed(i, "from_str", "fmt") =>
               log[i + 1].status = "ok" /\ log[i + 1].text = Set(StringParsed(i))
        /\ FormatsImfParsed(i, "parse_http_date", "fmt_http_date") =>
               log[i + 1].status = "ok" /\ log[i + 1].text = Set(StringParsed(i))

\* "Sun, 02 Oct 2016 08:49:00 GMT" was parsed and the date displayed.
C18_Witness ==
    /\ Len(log) = 2
    /\ input.kind = "written"
    /\ input.f = [sec |-> 0, min |-> 49, hour |-> 8, day |-> 2, mon |-> 10,
                  year |-> 2016, wday |-> 7]
    /\ FormatsImfParsed(1, "from_str", "fmt")
    /\ log[2].text.v = Render("imf", input.f)

\* String s without the whitespace (tab, line feed, vertical tab, form
\* feed, carriage return, space) at its two ends.
RECURSIVE Stripped(_)
Stripped(s) ==
    IF s = <<>> THEN s
    ELSE IF Head(s) \in {9, 10, 11, 12, 13, 32} THEN Stripped(Tail(s))
    ELSE IF s[Len(s)] \in {9, 10, 11, 12, 13, 32} THEN Stripped(SubSeq(s, 1, Len(s) - 1))
    ELSE s

\* The run starts from an ASCII String with whitespace at an end, and
\* operation 1 is parse_http_date of it.
ParsesPadded ==
    /\ input.kind = "raw"
    /\ \A j \in 1..Len(input.raw.s) : input.raw.s[j] < 128
    /\ Stripped(input.raw.s) # input.raw.s
    /\ Len(log) >= 1 /\ log[1].op = "parse_http_date"

\* C19: parsing ignores surrounding whitespace.  For every ASCII string s,
\* parse_http_date(s) is parse_http_date of s without its leading and
\* trailing whitespace; a valid IMF-fixdate of 29 bytes with spaces before
\* and after it is accepted.
C19_WhitespaceIgnored ==
    ParsesPadded =>
        /\ \E r \in {parse_http_date(Stripped(input.raw.s))} :
               /\ (log[1].status = "ok") <=> r.ok
               /\ (log[1].status = "panic") <=> r.panic
               /\ r.ok => log[1].time = Set(r.v)
        /\ (/\ input.raw.k = "imf" /\ input.raw.edit.op = "none"
            /\ input.raw.pad.ws = 32) =>
               log[1].status = "ok"

\* " Sun, 06 Nov 1994 08:49:37 GMT " was parsed to 784111777.
C19_Witness ==
    /\ ParsesPadded
    /\ input.raw.k = "imf" /\ input.raw.edit.op = "none"
    /\ input.raw.pad = [lead |-> 1, trail |-> 1, ws |-> 32]
    /\ Len(input.raw.s) = 31
    /\ log[1].status = "ok"
    /\ log[1].time = Set([days |-> 9075, sod |-> 31777])

====
